---------------------------- MODULE Spec2Model ----------------------------
(***************************************************************************)
(* Model of the UK number-plate recognition pipeline (anpr_system).        *)
(*                                                                         *)
(* Strings are sequences of one-character strings, so that slicing,        *)
(* filtering and pattern matching are computed character by character as   *)
(* the Python code does.                                                   *)
(*                                                                         *)
(* Specifications:                                                         *)
(*   SpecNorm  - the plate text normalizer (format_uk_plate) applied to a  *)
(*               bounded set of raw texts, once and then to its own result *)
(*   SpecGeom  - the two candidate detectors and extract_plate applied to  *)
(*               images given by their size and their contours             *)
(*   Spec      - one call of process_image, step by step, with a text      *)
(*               provider that may answer each request in any way          *)
(*   SpecRepeat - repeated calls of process_image on one recognizer with   *)
(*               a fixed text provider                                     *)
(*   SpecSimple - simple_detector.detect_and_recognize_plate               *)
(*   SpecPlate - PlateRecognizer.recognize_plate                           *)
(*   SpecAggregate - process_image and recognize_plate side by side        *)
(*   SpecFault - the same two with a text provider that may raise          *)
(*   SpecApi   - the HTTP handler api_server.anpr_process round one call   *)
(*               of process_image, with a text provider that may raise     *)
(***************************************************************************)
EXTENDS Integers, Sequences, FiniteSets, TLC

(***************************************************************************)
(* Bounds                                                                  *)
(***************************************************************************)
\* longest run of free characters put before and after a core text
MaxAffix == 2

(***************************************************************************)
(* Characters                                                              *)
(***************************************************************************)
UpperSeq == <<"A","B","C","D","E","F","G","H","I","J","K","L","M",
              "N","O","P","Q","R","S","T","U","V","W","X","Y","Z">>
LowerSeq == <<"a","b","c","d","e","f","g","h","i","j","k","l","m",
              "n","o","p","q","r","s","t","u","v","w","x","y","z">>
UpperLetters == { UpperSeq[i] : i \in 1..26 }
LowerLetters == { LowerSeq[i] : i \in 1..26 }
DigitChars   == {"0","1","2","3","4","5","6","7","8","9"}

\* str.isalnum() on one character
IsAlnum(c) == c \in UpperLetters \cup LowerLetters \cup DigitChars

\* str.upper() on one character
UpperChar(c) ==
    IF c \in LowerLetters
    THEN UpperSeq[CHOOSE i \in 1..26 : LowerSeq[i] = c]
    ELSE c

\* str.upper()
Upper(s) == [i \in 1..Len(s) |-> UpperChar(s[i])]

\* str.replace(a, b) for one-character a and b
Replace(s, a, b) == [i \in 1..Len(s) |-> IF s[i] = a THEN b ELSE s[i]]

\* Python slice s[lo:hi] (0-based, hi exclusive), for 0 <= lo
Slice(s, lo, hi) ==
    LET h == IF hi > Len(s) THEN Len(s) ELSE hi
    IN  IF lo >= h THEN << >> ELSE [i \in 1..(h - lo) |-> s[lo + i]]

(***************************************************************************)
(* String literals of the program                                          *)
(***************************************************************************)
S_UNKNOWN  == <<"U","N","K","N","O","W","N">>
S_AA03_BOJ == <<"A","A","0","3"," ","B","O","J">>
S_GB       == <<"G","B">>
S_EU       == <<"E","U">>

(***************************************************************************)
(* UKPlateRecognizer.format_uk_plate                                       *)
(***************************************************************************)
\* ''.join(c for c in text if c.isalnum()).upper()
CleanText(text) == Upper(SelectSeq(text, IsAlnum))

CorrectConfusions_none(clean) == clean

CorrectConfusions_extra(clean) ==
    Replace(Replace(Replace(clean, "O", "0"), "I", "1"), "B", "8")

\* the two OCR error corrections, applied to the whole cleaned string
CorrectConfusions(clean) == Replace(Replace(clean, "O", "0"), "I", "1")

\* re.search(r'AA[O0]3.*B[O0]J', s)
SearchAA03BOJ(s) ==
    \E i \in 1..Len(s) : \E j \in 1..Len(s) :
        /\ i + 3 <= Len(s)
        /\ s[i] = "A" /\ s[i+1] = "A" /\ s[i+2] \in {"O","0"} /\ s[i+3] = "3"
        /\ j >= i + 4
        /\ j + 2 <= Len(s)
        /\ s[j] = "B" /\ s[j+1] \in {"O","0"} /\ s[j+2] = "J"

\* re.match(r'^[A-Z]{2}\d{2}[A-Z]{3}$', candidate)
MatchUKPattern(candidate) ==
    /\ Len(candidate) = 7
    /\ \A i \in {1,2,5,6,7} : candidate[i] \in UpperLetters
    /\ \A i \in {3,4} : candidate[i] \in DigitChars

\* f"{c[:2]}{c[2:4]} {c[4:]}"
FormatPlate_dropchar(c) == Slice(c, 0, 2) \o Slice(c, 2, 4) \o <<" ">> \o Slice(c, 5, Len(c))

FormatPlate(c) == Slice(c, 0, 2) \o Slice(c, 2, 4) \o <<" ">> \o Slice(c, 4, Len(c))

\* start indexes (0-based) of the length-7 windows matching the pattern
MatchingWindows(clean) ==
    { i \in 0..(Len(clean) - 7) : MatchUKPattern(Slice(clean, i, i + 7)) }

\* the last window matching the pattern
FirstWindow_last(clean) ==
    LET i == CHOOSE k \in MatchingWindows(clean) :
                 \A m \in MatchingWindows(clean) : k >= m
    IN  Slice(clean, i, i + 7)

\* the loop "for i in range(len(clean_text) - 6)" returns at the first match
FirstWindow(clean) ==
    LET i == CHOOSE k \in MatchingWindows(clean) :
                 \A m \in MatchingWindows(clean) : k <= m
    IN  Slice(clean, i, i + 7)

format_uk_plate(text) ==
    LET clean_text == CorrectConfusions(CleanText(text))
    IN  IF SearchAA03BOJ(clean_text) THEN S_AA03_BOJ
        ELSE IF Len(clean_text) >= 7 /\ MatchingWindows(clean_text) # {}
             THEN FormatPlate(FirstWindow(clean_text))
        ELSE IF Len(clean_text) = 7 THEN FormatPlate(clean_text)
        ELSE clean_text

(***************************************************************************)
(* Raw texts given to the normalizer                                       *)
(***************************************************************************)
S_AB1OCDE == <<"A","B","1","O","C","D","E">>
S_AA03BOJ == <<"A","A","0","3","B","O","J">>

PlateLetters == {"A","B","O","I","J"}
PlateDigits  == {"0","3"}

\* every 7-character text shaped [A-Z]{2}[0-9]{2}[A-Z]{3} over the letters
\* and digits above
PatternTexts ==
    { <<a, b, c, d, e, f, g>> :
        a \in PlateLetters, b \in PlateLetters,
        c \in PlateDigits,  d \in PlateDigits,
        e \in PlateLetters, f \in PlateLetters, g \in PlateLetters }

AffixChars == {"A","o","3"," "}

Affixes == UNION { [1..n -> AffixChars] : n \in 0..MaxAffix }

\* two plates one after the other
S_TWO_PLATES ==
    <<"A","B","3","3","A","B","J","J","A","0","0","B","A","B">>

\* a plate between the two parts of the special pattern
S_PLATE_IN_SPECIAL ==
    <<"A","A","0","3","A","B","3","3","A","B","J","B","O","J">>

CoreTexts ==
    { << >>, S_AB1OCDE, S_AA03BOJ,
      <<"A","A","0","3","B">>,
      <<"A","B","3","3","A","B">>,
      S_TWO_PLATES, S_PLATE_IN_SPECIAL }

FramedTexts == { pre \o core \o post :
                   pre \in Affixes, core \in CoreTexts, post \in Affixes }

RawTexts == PatternTexts \cup FramedTexts


(***************************************************************************)
(* Images and contours (the values the image library hands to the code)    *)
(*                                                                         *)
(* A contour is the sequence of its points, as cv2.findContours returns    *)
(* it, together with the number of vertices cv2.approxPolyDP gives for it. *)
(* An image is its width, its height and the contours found in it.         *)
(***************************************************************************)
Pt(px, py) == [x |-> px, y |-> py]

Min(S) == CHOOSE m \in S : \A n \in S : m <= n
Max(S) == CHOOSE m \in S : \A n \in S : m >= n
Abs(n) == IF n < 0 THEN -n ELSE n

\* cv2.boundingRect(contour): <<x, y, w, h>>, the empty rectangle for a
\* contour without points
BoundingRect(contour) ==
    IF Len(contour.pts) = 0 THEN <<0, 0, 0, 0>>
    ELSE LET xs == { contour.pts[i].x : i \in 1..Len(contour.pts) }
             ys == { contour.pts[i].y : i \in 1..Len(contour.pts) }
         IN  <<Min(xs), Min(ys), Max(xs) - Min(xs) + 1, Max(ys) - Min(ys) + 1>>

RECURSIVE CrossSum(_, _)
CrossSum(pts, i) ==
    IF i > Len(pts) THEN 0
    ELSE LET p == pts[i]
             q == pts[IF i = Len(pts) THEN 1 ELSE i + 1]
         IN  (p.x * q.y - q.x * p.y) + CrossSum(pts, i + 1)

\* twice cv2.contourArea(contour) (the area is a multiple of one half)
ContourArea2(contour) == Abs(CrossSum(contour.pts, 1))

\* sorted(contours, key=cv2.contourArea, reverse=True): stable, largest first
RECURSIVE InsertByArea(_, _)
InsertByArea(sorted, c) ==
    IF sorted = << >> THEN <<c>>
    ELSE IF ContourArea2(Head(sorted)) >= ContourArea2(c)
         THEN <<Head(sorted)>> \o InsertByArea(Tail(sorted), c)
         ELSE <<c>> \o sorted

\* the contours left in the order cv2.findContours gave them
SortedByArea_unsorted(contours) == contours

RECURSIVE SortedByArea(_)
SortedByArea(contours) ==
    IF contours = << >> THEN << >>
    ELSE InsertByArea(SortedByArea(SubSeq(contours, 1, Len(contours) - 1)),
                      contours[Len(contours)])

\* Python slice seq[:k]
Take(seq, k) == SubSeq(seq, 1, IF Len(seq) < k THEN Len(seq) ELSE k)

(***************************************************************************)
(* UKPlateRecognizer.detect_plate_regions                                  *)
(***************************************************************************)
TopContoursUK == 15

\* 4 to 6 vertices and 2.0 < w / h < 7.0
IsPlateRegion(contour) ==
    LET r == BoundingRect(contour)
    IN  /\ contour.approx >= 4
        /\ contour.approx <= 6
        /\ 2 * r[4] < r[3]
        /\ r[3] < 7 * r[4]

\* a region cut with a margin of five pixels round the bounding box
RegionBox_margin(contour) ==
    LET r == BoundingRect(contour)
    IN  <<r[1] - 5, r[2] - 5, r[3] + 10, r[4] + 10>>

\* the box <<x, y, w, h>> of the region image[y:y+h, x:x+w] appended for a
\* contour
RegionBox(contour) == BoundingRect(contour)

\* the list of the boxes of the regions kept
detect_plate_regions(image) ==
    LET contours == Take(SortedByArea(image.contours), TopContoursUK)
        kept     == SelectSeq(contours, IsPlateRegion)
    IN  [i \in 1..Len(kept) |-> RegionBox(kept[i])]

(***************************************************************************)
(* PlateRecognizer.find_plate_contours and extract_plate                   *)
(***************************************************************************)
TopContoursPR == 20

\* 0.01 * total_area < area < 0.1 * total_area and 3.0 < w / h < 6.0
IsPlateContour(image, contour) ==
    LET r     == BoundingRect(contour)
        total == image.h * image.w
    IN  /\ 2 * total < 100 * ContourArea2(contour)
        /\ 10 * ContourArea2(contour) < 2 * total
        /\ 3 * r[4] < r[3]
        /\ r[3] < 6 * r[4]

find_plate_contours(image) ==
    LET contours == Take(SortedByArea(image.contours), TopContoursPR)
        Keep(c)  == IsPlateContour(image, c)
    IN  SelectSeq(contours, Keep)

\* cvRound(a / b) for a >= 0, b > 0: nearest integer, halves to even
RoundDiv(a, b) ==
    LET q == a \div b
        r == a % b
    IN  IF 2 * r < b THEN q
        ELSE IF 2 * r > b THEN q + 1
        ELSE IF q % 2 = 0 THEN q ELSE q + 1

TargetHeight == 50

\* the body of the try block: the value computed, or the exception raised
\* in it.  The crop image[y:y+h, x:x+w] is clipped to the image.
ExtractBody(image, contour) ==
    LET r  == BoundingRect(contour)
        cw == Max({0, Min({r[1] + r[3], image.w}) - Min({r[1], image.w})})
        ch == Max({0, Min({r[2] + r[4], image.h}) - Min({r[2], image.h})})
    IN  IF r[4] = 0
        THEN [exc |-> "ZeroDivisionError", w |-> 0, h |-> 0]
        ELSE IF cw = 0 \/ ch = 0
                \/ RoundDiv(cw * TargetHeight, r[4]) = 0
                \/ RoundDiv(ch * TargetHeight, r[4]) = 0
        THEN [exc |-> "cv2.error", w |-> 0, h |-> 0]
        ELSE [exc |-> "none",
              w |-> RoundDiv(cw * TargetHeight, r[4]),
              h |-> RoundDiv(ch * TargetHeight, r[4])]

\* extract_plate without its try/except: the exception escapes
extract_plate_notry(image, contour) ==
    LET b == ExtractBody(image, contour)
    IN  IF b.exc # "none"
        THEN [value |-> "none", w |-> 0, h |-> 0, caught |-> "none", raised |-> b.exc]
        ELSE [value |-> "image", w |-> b.w, h |-> b.h, caught |-> "none", raised |-> "none"]

\* extract_plate returning the crop as it is, without the resize
extract_plate_crop(image, contour) ==
    LET b == ExtractBody(image, contour)
        r == BoundingRect(contour)
    IN  IF b.exc # "none"
        THEN [value |-> "None", w |-> 0, h |-> 0, caught |-> b.exc, raised |-> "none"]
        ELSE [value |-> "image", w |-> r[3], h |-> r[4], caught |-> "none", raised |-> "none"]

\* extract_plate: "except Exception" turns every exception of the body
\* into the return value None
extract_plate(image, contour) ==
    LET b == ExtractBody(image, contour)
    IN  IF b.exc # "none"
        THEN [value |-> "None", w |-> 0, h |-> 0, caught |-> b.exc, raised |-> "none"]
        ELSE [value |-> "image", w |-> b.w, h |-> b.h, caught |-> "none", raised |-> "none"]

(***************************************************************************)
(* Contours and images given to the detectors                              *)
(***************************************************************************)
\* the contour running round the box <<bx, by, bw, bh>>
RectContour(bx, by, bw, bh, n) ==
    [pts |-> <<Pt(bx, by), Pt(bx + bw - 1, by),
               Pt(bx + bw - 1, by + bh - 1), Pt(bx, by + bh - 1)>>,
     approx |-> n]

EmptyContour == [pts |-> << >>, approx |-> 0]

SceneW == 640
SceneH == 480

GeomContours ==
    { RectContour(100, 200, 200, 50, 4),     \* a plate in the scene
      RectContour(440, 430, 200, 50, 6),     \* a plate in the bottom right corner
      RectContour(0, 0, 300, 100, 4),        \* ratio exactly 3.0
      RectContour(0, 0, 350, 50, 4),         \* ratio exactly 7.0
      RectContour(0, 0, 100, 50, 5),         \* ratio exactly 2.0
      RectContour(0, 0, 6, 2, 4),            \* a speck with a plate's shape
      RectContour(100, 200, 200, 50, 7),     \* a plate with a ragged outline
      RectContour(100, 200, 201, 50, 3),     \* a triangle
      RectContour(0, 0, 640, 160, 4),        \* a third of the scene
      RectContour(0, 100, 1, 200, 4),        \* a vertical hairline
      RectContour(0, 100, 1, 100, 4),        \* half a pixel wide at height 50
      [pts |-> <<Pt(639, 479)>>, approx |-> 1] }

\* a scene crowded with contours, in the order of growing area: four small
\* plates (31 to 34 pixels high, four times as wide), then n squares of 120
\* pixels and more with a ragged outline
SmallPlates == [i \in 1..4 |-> RectContour(10 * i, 200, 4 * (30 + i), 30 + i, 4)]
Squares(n)  == [i \in 1..n |-> RectContour(0, 0, 119 + i, 119 + i, 8)]

\* two of the small plates are among the 15 (the 20) largest contours, two
\* are not
CrowdedUK == SmallPlates \o Squares(TopContoursUK - 2)
CrowdedPR == SmallPlates \o Squares(TopContoursPR - 2)

\* longest list of contours found in one image
MaxContours == 2

ContourLists(pool) == UNION { [1..n -> pool] : n \in 0..MaxContours }

\* what cv2.imread gives for a file it cannot decode (None)
NoImage == [decodable |-> FALSE, w |-> 0, h |-> 0, contours |-> << >>]

GeomImages ==
    { [decodable |-> TRUE, w |-> SceneW, h |-> SceneH, contours |-> cs] :
        cs \in ContourLists(GeomContours) \cup {CrowdedUK, CrowdedPR} }

(***************************************************************************)
(* The text provider (pytesseract) and the colour measurements (cv2)       *)
(*                                                                         *)
(* provider = "any": every request is answered by any value of its answer  *)
(* set, so one run of the pipeline ranges over every provider.  Any other  *)
(* value names a fixture: a fixed provider whose answer depends on the     *)
(* request only.  provider = "faulty" answers as "any" does, or raises.    *)
(***************************************************************************)
Tok(t, c) == [text |-> t, conf |-> c]

T_PLATE == <<"A","B","1","2","C","D","E">>
T_SHORT == <<"A","B","1","2">>

\* answers of image_to_data: the rows of its 'text' and 'conf' columns
NoTokens     == <<Tok(<< >>, -1)>>
PlateTokens  == <<Tok(<< >>, -1), Tok(T_PLATE, 90)>>
BlankTokens  == <<Tok(<<" ">>, 95), Tok(T_SHORT, 90)>>
FaintTokens  == <<Tok(T_SHORT, 5)>>
DataAnswers  == { NoTokens, PlateTokens, BlankTokens, FaintTokens }

\* answers of image_to_string on a plate raster
StringAnswers == { << >>, <<" ">>, T_PLATE \o <<" ">> }

\* answers of image_to_string on the country band
BandAnswers == { << >>, <<"G","B">>, <<"B","G">> }

\* percentages of blue and of white pixels
BlueAnswers  == { 10, 15, 20, 25 }
WhiteAnswers == { 5, 8 }

Fixtures == { "blank", "plate", "faint" }

\* pytesseract raises (TesseractError) only with a provider that may fail
ProviderFails(prov) == prov = "faulty"

DataAnswer(prov, psm) ==
    CASE prov \in {"any", "faulty"} -> DataAnswers
      [] prov = "blank" -> { NoTokens }
      [] prov = "plate" -> { PlateTokens }
      [] prov = "faint" -> { IF psm = 8 THEN FaintTokens ELSE NoTokens }

StringAnswer(prov) ==
    CASE prov \in {"any", "faulty"} -> StringAnswers
      [] prov = "blank" -> { << >> }
      [] prov = "plate" -> { T_PLATE \o <<" ">> }
      [] prov = "faint" -> { <<" ">> }

BandAnswer(prov, enhanced) ==
    CASE prov \in {"any", "faulty"} -> BandAnswers
      [] prov = "blank" -> { << >> }
      [] prov = "plate" -> { IF enhanced THEN <<"B","G">> ELSE <<"G","B">> }
      [] prov = "faint" -> { << >> }

BlueAnswer(prov) ==
    CASE prov \in {"any", "faulty"} -> BlueAnswers
      [] prov = "blank" -> { 10 }
      [] prov = "plate" -> { 25 }
      [] prov = "faint" -> { 15 }

WhiteAnswer(prov) ==
    CASE prov \in {"any", "faulty"} -> WhiteAnswers
      [] prov = "blank" -> { 5 }
      [] prov = "plate" -> { 8 }
      [] prov = "faint" -> { 8 }

(***************************************************************************)
(* Helpers of the recognizer                                               *)
(***************************************************************************)
IsSpace(c) == c \in {" ", "\n", "\t"}

\* str.strip()
RECURSIVE Strip(_)
Strip(s) ==
    IF s = << >> THEN s
    ELSE IF IsSpace(Head(s)) THEN Strip(Tail(s))
    ELSE IF IsSpace(s[Len(s)]) THEN Strip(SubSeq(s, 1, Len(s) - 1))
    ELSE s

\* needle in s, for a two-character needle
Contains(s, needle) ==
    \E i \in 1..(Len(s) - 1) : s[i] = needle[1] /\ s[i+1] = needle[2]

\* the psm of each OCR configuration, in the order of the configs lists
RecognizeConfigs == <<7, 8, 6, 13>>
DirectConfigs    == <<7, 8, 6>>

\* recognize_plate_number keeps a row when conf > 0 and text and text.strip()
AcceptedToken(t) == t.conf > 0 /\ t.text # << >> /\ Strip(t.text) # << >>

AcceptedRows(rows) == SelectSeq(rows, AcceptedToken)

\* the last index of the highest confidence
MaxIndex_last(confs) ==
    CHOOSE i \in 1..Len(confs) :
        /\ \A j \in 1..Len(confs) : confs[j] <= confs[i]
        /\ \A j \in (i + 1)..Len(confs) : confs[j] # confs[i]

\* confidences.index(max(confidences))
MaxIndex(confs) ==
    CHOOSE i \in 1..Len(confs) :
        /\ \A j \in 1..Len(confs) : confs[j] <= confs[i]
        /\ \A j \in 1..(i - 1) : confs[j] # confs[i]

\* direct_ocr_plate looks at a row when conf > 10 and text
DirectAccepted(t) == t.conf > 10 /\ t.text # << >>

\* direct_ocr_plate's scan of the rows of one config: a row replaces the
\* best one when conf > 10, its text is not empty and conf > best_confidence
RECURSIVE DirectScan(_, _)
DirectScan(rows, best) ==
    IF rows = << >> THEN best
    ELSE LET t == Head(rows)
         IN  DirectScan(Tail(rows),
                        IF t.conf > 10 /\ t.text # << >> /\ t.conf > best.conf
                        THEN t ELSE best)

\* the number of columns of image[:, 0:int(w*0.15)]
LeftBandWidth(w) == (w * 15) \div 100

\* 3.5 <= w / h <= 5.5
PlateLikeRatio_closed(w, h) == 7 * h <= 2 * w /\ 2 * w <= 11 * h

\* 3.5 < w / h < 5.5
PlateLikeRatio(w, h) == 7 * h < 2 * w /\ 2 * w < 11 * h

\* is_clearly_uk_plate judging by the blue band alone
IsClearlyUKPlate_blueonly(blue, w, h) == blue > 10

\* is_clearly_uk_plate, given the blue percentage of the left band
IsClearlyUKPlate(blue, w, h) == blue > 10 /\ PlateLikeRatio(w, h)

WhiteHeuristic_loose(white, blue) == white > 5 /\ blue > 10

\* white_percentage > 5 and blue_percentage > 20
WhiteHeuristic(white, blue) == white > 5 /\ blue > 20

(***************************************************************************)
(* Images given to the pipeline                                            *)
(***************************************************************************)
PipelineContours ==
    { RectContour(100, 200, 200, 50, 4),     \* a plate in the scene
      RectContour(0, 0, 6, 2, 4),            \* a speck with a plate's shape
      RectContour(0, 0, 100, 100, 4) }       \* a square

PipelineImages ==
    { NoImage,
      [decodable |-> TRUE, w |-> 450, h |-> 100, contours |-> << >>],
      [decodable |-> TRUE, w |-> 350, h |-> 100, contours |-> << >>],
      [decodable |-> TRUE, w |-> 550, h |-> 100, contours |-> << >>] }
    \cup
    { [decodable |-> TRUE, w |-> SceneW, h |-> SceneH, contours |-> cs] :
        cs \in ContourLists(PipelineContours) \cup {CrowdedUK} }

(***************************************************************************)
(* State                                                                   *)
(***************************************************************************)
VARIABLES
    \* the normalizer on its own
    npc,            \* "raw", "once" (formatted) or "twice"; "off" elsewhere
    text,           \* the raw text given to format_uk_plate
    formatted,      \* format_uk_plate(text)
    reformatted,    \* format_uk_plate(formatted)
    \* the detectors and the extractor on their own
    gpc,            \* "input", "detected", "found", "extracted"; "off" elsewhere
    plate_contours, \* what find_plate_contours returned
    contour,        \* the contour given to extract_plate
    recognizer,     \* the fields of the PlateRecognizer object
    extracted,      \* what extract_plate did with it
    best_plate_img, \* recognize_plate: the plate image kept with best_text
    \* shared by the detectors and the pipeline
    image,          \* the image read from image_path
    plate_regions,  \* what detect_plate_regions returned
    \* UKPlateRecognizer.process_image
    provider,       \* "any" or the fixture plugged in as provider
    pc,             \* position in process_image; "off" elsewhere
    branch,         \* "shortcut", "fallback" or "candidates"
    region,         \* box <<x, y, w, h>> of the raster being read
    idx,            \* index of the region in plate_regions
    results,        \* the results dict: index k stands for key plate_k
    plate_number,
    country_id,
    ret,            \* "pending", "None", "dict", "text" or "raise"
    raised,         \* the exception that left process_image, or "none"
    text_seen,      \* history: some plate OCR request of this call gave text
    \* recognize_plate_number and direct_ocr_plate
    cfg,            \* position in the configs list (from 1)
    all_texts,
    confidences,
    best_text,
    best_confidence,
    hyps,           \* history: the rows this invocation kept, in the order seen
                    \* (in the simple detector: the cleaned text of each config)
    ocr_text,       \* the stripped answer of image_to_string
    ocr_log,        \* requests made to the text provider by this invocation
    \* detect_country_identifier
    blue_percentage,
    id_text,        \* OCR of the enhanced band
    simple_text,    \* OCR of the unprocessed band
    white_percentage,
    id_log,         \* requests made by this invocation, in order
    \* history
    first,          \* the first finished call: its image and what it returned
    \* api_server.anpr_process
    apc,            \* "request", "process", "returned"; "off" elsewhere
    request,        \* the request: whether request.files holds 'image'
    temp_file,      \* the file at temp_path: "none", "exists" or "deleted"
    response        \* the status and the plate_number of the JSON answer

nvars == <<npc, text, formatted, reformatted>>
gvars == <<gpc, recognizer, plate_contours, contour, extracted,
           best_plate_img>>
avars == <<cfg, all_texts, confidences, best_text, best_confidence, hyps,
           ocr_text, ocr_log>>
ivars == <<blue_percentage, id_text, simple_text, white_percentage, id_log>>
cvars == <<pc, branch, region, idx, results, plate_number, country_id,
           ret, raised>>
pvars == <<provider, cvars, avars, ivars, text_seen, first>>
hvars == <<apc, request, temp_file, response>>
vars  == <<nvars, gvars, image, plate_regions, pvars, hvars>>

NoExtract == [value |-> "pending", w |-> 0, h |-> 0,
              caught |-> "none", raised |-> "none"]

NoRequest  == [has_image |-> FALSE]
NoResponse == [status |-> 0, plate_number |-> << >>]

\* no request is being handled
ApiOff ==
    /\ apc = "off"
    /\ request = NoRequest
    /\ temp_file = "none"
    /\ response = NoResponse

\* best_plate_img = None
NoPlateImg == [value |-> "None", box |-> <<0, 0, 0, 0>>, w |-> 0, h |-> 0]

NormOff ==
    /\ npc = "off"
    /\ text = << >>
    /\ formatted = << >>
    /\ reformatted = << >>

\* no PlateRecognizer has been constructed
NoRecognizer == [constructed |-> FALSE, min_area |-> 0, max_area |-> 0]

\* PlateRecognizer.__init__
PlateRecognizer_init ==
    [constructed |-> TRUE, min_area |-> 500, max_area |-> 15000]

GeomIdle ==
    /\ gpc = "off"
    /\ plate_contours = << >>
    /\ contour = EmptyContour
    /\ extracted = NoExtract
    /\ best_plate_img = NoPlateImg

GeomOff ==
    /\ GeomIdle
    /\ recognizer = NoRecognizer

NoCall   == [called |-> FALSE]
NoRegion == <<0, 0, 0, 0>>

\* the locals of process_image and of the functions it calls, before
\* any of them has run
LocalsFresh ==
    /\ branch = ""
    /\ region = NoRegion
    /\ idx = 0
    /\ results = << >>
    /\ plate_number = << >>
    /\ country_id = << >>
    /\ ret = "pending"
    /\ raised = "none"
    /\ text_seen = FALSE
    /\ cfg = 1
    /\ all_texts = << >>
    /\ confidences = << >>
    /\ best_text = << >>
    /\ best_confidence = 0
    /\ hyps = << >>
    /\ ocr_text = << >>
    /\ ocr_log = << >>
    /\ blue_percentage = 0
    /\ id_text = << >>
    /\ simple_text = << >>
    /\ white_percentage = 0
    /\ id_log = << >>

PipelineOff ==
    /\ provider = "any"
    /\ pc = "off"
    /\ LocalsFresh
    /\ first = NoCall

(***************************************************************************)
(* SpecNorm: the normalizer on its own                                     *)
(***************************************************************************)
InitNorm ==
    /\ npc = "raw"
    /\ text \in RawTexts
    /\ formatted = << >>
    /\ reformatted = << >>
    /\ ApiOff
    /\ GeomOff
    /\ image = NoImage
    /\ plate_regions = << >>
    /\ PipelineOff

\* format_uk_plate(text)
Normalize ==
    /\ npc = "raw"
    /\ formatted' = format_uk_plate(text)
    /\ npc' = "once"
    /\ UNCHANGED <<hvars, text, reformatted, gvars, image, plate_regions, pvars>>

\* format_uk_plate applied to its own result
NormalizeAgain ==
    /\ npc = "once"
    /\ reformatted' = format_uk_plate(formatted)
    /\ npc' = "twice"
    /\ UNCHANGED <<hvars, text, formatted, gvars, image, plate_regions, pvars>>

NextNorm == Normalize \/ NormalizeAgain

SpecNorm == InitNorm /\ [][NextNorm]_vars

(***************************************************************************)
(* SpecGeom: the two region detectors and the extractor on their own, on   *)
(* the contours of one scene                                               *)
(***************************************************************************)
InitGeom ==
    /\ NormOff
    /\ ApiOff
    /\ gpc = "input"
    /\ recognizer = PlateRecognizer_init
    /\ image \in GeomImages
    /\ plate_regions = << >>
    /\ plate_contours = << >>
    /\ contour = EmptyContour
    /\ extracted = NoExtract
    /\ best_plate_img = NoPlateImg
    /\ PipelineOff

\* UKPlateRecognizer.detect_plate_regions(image)
DetectRegions ==
    /\ gpc = "input"
    /\ plate_regions' = detect_plate_regions(image)
    /\ gpc' = "detected"
    /\ UNCHANGED <<hvars, nvars, best_plate_img, recognizer, image, plate_contours, contour,
                   extracted, pvars>>

\* PlateRecognizer.find_plate_contours(processed, image)
FindPlateContours ==
    /\ gpc = "detected"
    /\ plate_contours' = find_plate_contours(image)
    /\ gpc' = "found"
    /\ UNCHANGED <<hvars, nvars, best_plate_img, recognizer, image, plate_regions, contour,
                   extracted, pvars>>

\* PlateRecognizer.extract_plate(image, c), for a contour of the image or a
\* contour without points
ExtractPlate(c) ==
    /\ gpc = "found"
    /\ contour' = c
    /\ extracted' = extract_plate(image, c)
    /\ gpc' = "extracted"
    /\ UNCHANGED <<hvars, nvars, best_plate_img, recognizer, image, plate_regions, plate_contours,
                   pvars>>

NextGeom ==
    \/ DetectRegions
    \/ FindPlateContours
    \/ \E i \in 1..Len(image.contours) : ExtractPlate(image.contours[i])
    \/ ExtractPlate(EmptyContour)

SpecGeom == InitGeom /\ [][NextGeom]_vars

(***************************************************************************)
(* UKPlateRecognizer.process_image, step by step                           *)
(***************************************************************************)
WholeImage == <<0, 0, image.w, image.h>>

\* results[f"plate_{k}"] = entry
Put(dict, k, entry) ==
    [j \in (DOMAIN dict) \cup {k} |-> IF j = k THEN entry ELSE dict[j]]

\* a results dict kept from one call to the next
NewResults_shared(old) == old

\* results = {}
NewResults(old) == << >>

\* recognize_plate_number or direct_ocr_plate has returned and its caller
\* moves on: its locals are gone (the log of its requests is kept)
AggregatorLeave ==
    /\ cfg' = 1
    /\ all_texts' = << >>
    /\ confidences' = << >>
    /\ best_text' = << >>
    /\ best_confidence' = 0
    /\ hyps' = << >>
    /\ ocr_text' = << >>

\* detect_country_identifier has returned and its caller moves on
IdentifierLeave ==
    /\ blue_percentage' = 0
    /\ id_text' = << >>
    /\ simple_text' = << >>
    /\ white_percentage' = 0
    /\ id_log' = << >>

\* the first lines of recognize_plate_number and of direct_ocr_plate
AggregatorEnter ==
    /\ cfg' = 1
    /\ all_texts' = << >>
    /\ confidences' = << >>
    /\ best_text' = << >>
    /\ best_confidence' = 0
    /\ hyps' = << >>
    /\ ocr_text' = << >>
    /\ ocr_log' = << >>

\* image = cv2.imread(image_path); None ends the call.  Otherwise results
\* is the empty dict and the ratio of the image picks the branch.
ProcessLoad ==
    /\ pc = "start"
    /\ IF ~image.decodable
       THEN /\ ret' = "None"
            /\ pc' = "done"
            /\ UNCHANGED <<branch, region, results, avars>>
       ELSE /\ results' = NewResults(results)
            /\ ret' = ret
            /\ IF PlateLikeRatio(image.w, image.h)
               THEN /\ branch' = "shortcut"
                    /\ region' = WholeImage
                    /\ pc' = "recognize"
                    /\ AggregatorEnter
               ELSE /\ pc' = "detect"
                    /\ UNCHANGED <<branch, region, avars>>
    /\ UNCHANGED <<hvars, nvars, gvars, image, plate_regions, provider, idx,
                   plate_number, country_id, raised, ivars, text_seen, first>>

\* process_image returning at once when no region is found
ProcessDetect_nofallback ==
    /\ pc = "detect"
    /\ plate_regions' = detect_plate_regions(image)
    /\ IF plate_regions' = << >>
       THEN /\ branch' = "fallback"
            /\ region' = WholeImage
            /\ idx' = idx
            /\ pc' = "done"
            /\ ret' = "dict"
       ELSE /\ branch' = "candidates"
            /\ idx' = 0
            /\ region' = plate_regions'[1]
            /\ pc' = "recognize"
            /\ ret' = ret
    /\ AggregatorEnter
    /\ UNCHANGED <<hvars, nvars, gvars, image, provider, results, plate_number,
                   country_id, raised, ivars, text_seen, first>>

\* plate_regions = self.detect_plate_regions(image), then the fallback or
\* the first region
ProcessDetect ==
    /\ pc = "detect"
    /\ plate_regions' = detect_plate_regions(image)
    /\ IF plate_regions' = << >>
       THEN /\ branch' = "fallback"
            /\ region' = WholeImage
            /\ idx' = idx
            /\ pc' = "direct"
       ELSE /\ branch' = "candidates"
            /\ idx' = 0
            /\ region' = plate_regions'[1]
            /\ pc' = "recognize"
    /\ AggregatorEnter
    /\ UNCHANGED <<hvars, nvars, gvars, image, provider, results, plate_number,
                   country_id, ret, raised, ivars, text_seen, first>>

\* recognize_plate_number: one pass of "for config in configs"
RecognizeData ==
    /\ pc = "recognize"
    /\ cfg <= Len(RecognizeConfigs)
    /\ ocr_log' = Append(ocr_log, <<"image_to_data", RecognizeConfigs[cfg]>>)
    /\ \/ /\ \E rows \in DataAnswer(provider, RecognizeConfigs[cfg]) :
                LET kept == AcceptedRows(rows)
                IN  /\ all_texts' = all_texts \o
                           [i \in 1..Len(kept) |->
                               format_uk_plate(kept[i].text)]
                    /\ confidences' = confidences \o
                           [i \in 1..Len(kept) |-> kept[i].conf]
                    /\ hyps' = hyps \o kept
                    /\ text_seen' = (text_seen \/ kept # << >>)
          /\ cfg' = cfg + 1
          /\ UNCHANGED <<pc, ret, raised>>
       \/ /\ ProviderFails(provider)
          /\ raised' = "TesseractError"
          /\ ret' = "raise"
          /\ pc' = "done"
          /\ UNCHANGED <<cfg, all_texts, confidences, hyps, text_seen>>
    /\ UNCHANGED <<hvars, nvars, gvars, image, plate_regions, provider, branch,
                   region, idx, results, plate_number, country_id,
                   best_text, best_confidence, ocr_text, ivars, first>>

\* recognize_plate_number after the loop: the most confident text, or the
\* direct attempt when there is none
RecognizeSelect ==
    /\ pc = "recognize"
    /\ cfg > Len(RecognizeConfigs)
    /\ IF all_texts = << >>
       THEN /\ pc' = "rec_string"
            /\ UNCHANGED plate_number
       ELSE /\ plate_number' = all_texts[MaxIndex(confidences)]
            /\ pc' = "identify"
    /\ UNCHANGED <<hvars, nvars, gvars, image, plate_regions, provider, branch,
                   region, idx, results, country_id, ret, raised, avars,
                   ivars, text_seen, first>>

\* recognize_plate_number: image_to_string(pil_image, psm 7).strip()
RecognizeString ==
    /\ pc = "rec_string"
    /\ \E raw \in StringAnswer(provider) : ocr_text' = Strip(raw)
    /\ text_seen' = (text_seen \/ ocr_text' # << >>)
    /\ ocr_log' = Append(ocr_log, <<"image_to_string", 7>>)
    /\ IF ocr_text' # << >>
       THEN /\ plate_number' = format_uk_plate(ocr_text')
            /\ pc' = "identify"
       ELSE /\ pc' = "rec_clearly"
            /\ UNCHANGED plate_number
    /\ UNCHANGED <<hvars, nvars, gvars, image, plate_regions, provider, branch,
                   region, idx, results, country_id, ret, raised, cfg,
                   all_texts, confidences, best_text, best_confidence, hyps,
                   ivars, first>>

\* the preset value or "UNKNOWN", as is_clearly_uk_plate decides; cvtColor
\* raises on a left band without columns
ClearlyStep ==
    IF LeftBandWidth(region[3]) = 0
    THEN /\ raised' = "cv2.error"
         /\ ret' = "raise"
         /\ pc' = "done"
         /\ UNCHANGED plate_number
    ELSE /\ \E blue \in BlueAnswer(provider) :
               plate_number' = IF IsClearlyUKPlate(blue, region[3], region[4])
                               THEN S_AA03_BOJ ELSE S_UNKNOWN
         /\ pc' = "identify"
         /\ UNCHANGED <<ret, raised>>

\* recognize_plate_number: "if self.is_clearly_uk_plate(plate_image)"
RecognizeClearly ==
    /\ pc = "rec_clearly"
    /\ ClearlyStep
    /\ UNCHANGED <<hvars, nvars, gvars, image, plate_regions, provider, branch,
                   region, idx, results, country_id, avars, ivars,
                   text_seen, first>>

\* direct_ocr_plate: one pass of "for config in configs"
DirectData ==
    /\ pc = "direct"
    /\ cfg <= Len(DirectConfigs)
    /\ ocr_log' = Append(ocr_log, <<"image_to_data", DirectConfigs[cfg]>>)
    /\ \/ /\ \E rows \in DataAnswer(provider, DirectConfigs[cfg]) :
                LET best == DirectScan(rows, Tok(best_text, best_confidence))
                IN  /\ best_text' = best.text
                    /\ best_confidence' = best.conf
                    /\ hyps' = hyps \o SelectSeq(rows, DirectAccepted)
                    /\ text_seen' = (text_seen \/ best.text # << >>)
          /\ cfg' = cfg + 1
          /\ UNCHANGED <<pc, ret, raised>>
       \/ /\ ProviderFails(provider)
          /\ raised' = "TesseractError"
          /\ ret' = "raise"
          /\ pc' = "done"
          /\ UNCHANGED <<cfg, best_text, best_confidence, hyps, text_seen>>
    /\ UNCHANGED <<hvars, nvars, gvars, image, plate_regions, provider, branch,
                   region, idx, results, plate_number, country_id,
                   all_texts, confidences, ocr_text, ivars, first>>

\* direct_ocr_plate after the loop: "if best_text"
DirectSelect ==
    /\ pc = "direct"
    /\ cfg > Len(DirectConfigs)
    /\ IF best_text # << >>
       THEN /\ plate_number' = format_uk_plate(best_text)
            /\ pc' = "identify"
       ELSE /\ pc' = "dir_string"
            /\ UNCHANGED plate_number
    /\ UNCHANGED <<hvars, nvars, gvars, image, plate_regions, provider, branch,
                   region, idx, results, country_id, ret, raised, avars,
                   ivars, text_seen, first>>

\* direct_ocr_plate: image_to_string(plate_thresh, psm 7).strip()
DirectString ==
    /\ pc = "dir_string"
    /\ \E raw \in StringAnswer(provider) : ocr_text' = Strip(raw)
    /\ text_seen' = (text_seen \/ ocr_text' # << >>)
    /\ ocr_log' = Append(ocr_log, <<"image_to_string", 7>>)
    /\ IF ocr_text' # << >>
       THEN /\ plate_number' = format_uk_plate(ocr_text')
            /\ pc' = "identify"
       ELSE /\ pc' = "dir_clearly"
            /\ UNCHANGED plate_number
    /\ UNCHANGED <<hvars, nvars, gvars, image, plate_regions, provider, branch,
                   region, idx, results, country_id, ret, raised, cfg,
                   all_texts, confidences, best_text, best_confidence, hyps,
                   ivars, first>>

\* direct_ocr_plate: "if self.is_clearly_uk_plate(image)"
DirectClearly ==
    /\ pc = "dir_clearly"
    /\ ClearlyStep
    /\ UNCHANGED <<hvars, nvars, gvars, image, plate_regions, provider, branch,
                   region, idx, results, country_id, avars, ivars,
                   text_seen, first>>

\* a variant of the blue test that lets a band of exactly 10% through
IdentifyBlue_closed ==
    /\ pc = "identify"
    /\ \E blue \in BlueAnswer(provider) : blue_percentage' = blue
    /\ id_text' = << >>
    /\ simple_text' = << >>
    /\ white_percentage' = 0
    /\ id_log' = << >>
    /\ IF blue_percentage' >= 10
       THEN /\ pc' = "id_enhanced"
            /\ UNCHANGED country_id
       ELSE /\ country_id' = S_UNKNOWN
            /\ pc' = "emit"
    /\ AggregatorLeave
    /\ UNCHANGED <<hvars, nvars, gvars, image, plate_regions, provider, branch,
                   region, idx, results, plate_number, ret, raised, ocr_log,
                   text_seen, first>>

\* detect_country_identifier: the blue percentage of the left band
IdentifyBlue ==
    /\ pc = "identify"
    /\ \E blue \in BlueAnswer(provider) : blue_percentage' = blue
    /\ id_text' = << >>
    /\ simple_text' = << >>
    /\ white_percentage' = 0
    /\ id_log' = << >>
    /\ IF blue_percentage' > 10
       THEN /\ pc' = "id_enhanced"
            /\ UNCHANGED country_id
       ELSE /\ country_id' = S_UNKNOWN
            /\ pc' = "emit"
    /\ AggregatorLeave
    /\ UNCHANGED <<hvars, nvars, gvars, image, plate_regions, provider, branch,
                   region, idx, results, plate_number, ret, raised, ocr_log,
                   text_seen, first>>

\* a variant of the first OCR step that goes on to the second OCR attempt
\* whatever the first text holds
IdentifyEnhanced_eager ==
    /\ pc = "id_enhanced"
    /\ \E t \in BandAnswer(provider, TRUE) : id_text' = t
    /\ id_log' = Append(id_log, "text_enhanced")
    /\ pc' = "id_simple"
    /\ UNCHANGED <<hvars, nvars, gvars, image, plate_regions, provider, branch,
                   region, idx, results, plate_number, country_id, ret,
                   raised, avars, blue_percentage, simple_text,
                   white_percentage, text_seen, first>>

\* detect_country_identifier: OCR of the thresholded band, "if 'GB' in text"
IdentifyEnhanced ==
    /\ pc = "id_enhanced"
    /\ \E t \in BandAnswer(provider, TRUE) : id_text' = t
    /\ id_log' = Append(id_log, "text_enhanced")
    /\ IF Contains(id_text', S_GB)
       THEN /\ country_id' = S_GB
            /\ pc' = "emit"
       ELSE /\ pc' = "id_simple"
            /\ UNCHANGED country_id
    /\ UNCHANGED <<hvars, nvars, gvars, image, plate_regions, provider, branch,
                   region, idx, results, plate_number, ret, raised, avars,
                   blue_percentage, simple_text, white_percentage,
                   text_seen, first>>

\* detect_country_identifier: OCR of the unprocessed band
IdentifySimple ==
    /\ pc = "id_simple"
    /\ \E t \in BandAnswer(provider, FALSE) : simple_text' = t
    /\ id_log' = Append(id_log, "left_part")
    /\ IF Contains(simple_text', S_GB)
       THEN /\ country_id' = S_GB
            /\ pc' = "emit"
       ELSE /\ pc' = "id_white"
            /\ UNCHANGED country_id
    /\ UNCHANGED <<hvars, nvars, gvars, image, plate_regions, provider, branch,
                   region, idx, results, plate_number, ret, raised, avars,
                   blue_percentage, id_text, white_percentage,
                   text_seen, first>>

\* detect_country_identifier: the white pixel heuristic, else "EU"
IdentifyWhite ==
    /\ pc = "id_white"
    /\ \E white \in WhiteAnswer(provider) : white_percentage' = white
    /\ id_log' = Append(id_log, "white_mask")
    /\ country_id' = IF WhiteHeuristic(white_percentage', blue_percentage)
                     THEN S_GB ELSE S_EU
    /\ pc' = "emit"
    /\ UNCHANGED <<hvars, nvars, gvars, image, plate_regions, provider, branch,
                   region, idx, results, plate_number, ret, raised, avars,
                   blue_percentage, id_text, simple_text, text_seen, first>>

Entry == [plate_number |-> plate_number,
          country_identifier |-> country_id,
          bbox |-> region]

\* process_image: the entry of the region just read, then the next region
\* or "return results"
ProcessEmit ==
    /\ pc = "emit"
    /\ IF branch = "candidates"
       THEN /\ results' = Put(results, idx, Entry)
            /\ IF idx + 1 < Len(plate_regions)
               THEN /\ idx' = idx + 1
                    /\ region' = plate_regions[idx + 2]
                    /\ pc' = "recognize"
                    /\ AggregatorEnter
                    /\ ret' = ret
               ELSE /\ pc' = "done"
                    /\ ret' = "dict"
                    /\ UNCHANGED <<idx, region, avars>>
       ELSE /\ results' = IF branch = "shortcut" \/ plate_number # S_UNKNOWN
                          THEN Put(results, 0, Entry)
                          ELSE results
            /\ pc' = "done"
            /\ ret' = "dict"
            /\ UNCHANGED <<idx, region, avars>>
    /\ IdentifierLeave
    /\ UNCHANGED <<hvars, nvars, gvars, image, plate_regions, provider, branch,
                   plate_number, country_id, raised, text_seen, first>>

Next ==
    \/ ProcessLoad
    \/ ProcessDetect
    \/ RecognizeData
    \/ RecognizeSelect
    \/ RecognizeString
    \/ RecognizeClearly
    \/ DirectData
    \/ DirectSelect
    \/ DirectString
    \/ DirectClearly
    \/ IdentifyBlue
    \/ IdentifyEnhanced
    \/ IdentifySimple
    \/ IdentifyWhite
    \/ ProcessEmit

\* one call of process_image on any image, with any provider
Init ==
    /\ NormOff
    /\ ApiOff
    /\ GeomOff
    /\ image \in PipelineImages
    /\ plate_regions = << >>
    /\ provider = "any"
    /\ pc = "start"
    /\ LocalsFresh
    /\ first = NoCall

Spec == Init /\ [][Next]_vars

(***************************************************************************)
(* SpecRepeat: one recognizer object and one fixed provider, process_image *)
(* called again and again                                                  *)
(***************************************************************************)
\* what the finished call gave back
Outcome == [ret |-> ret, raised |-> raised,
            results |-> IF ret = "dict" THEN results ELSE << >>]

\* the finished call goes into the history and process_image is entered
\* again with any image; the new call has its own locals
ProcessAgain(img) ==
    /\ pc = "done"
    /\ first' = IF ~first.called
                THEN [called |-> TRUE, image |-> image, outcome |-> Outcome,
                      others |-> FALSE]
                ELSE IF image # first.image
                THEN [first EXCEPT !.others = TRUE]
                ELSE first
    /\ image' = img
    /\ pc' = "start"
    /\ plate_regions' = << >>
    /\ branch' = ""
    /\ region' = NoRegion
    /\ idx' = 0
    /\ plate_number' = << >>
    /\ country_id' = << >>
    /\ ret' = "pending"
    /\ raised' = "none"
    /\ text_seen' = FALSE
    /\ AggregatorEnter
    /\ IdentifierLeave
    /\ UNCHANGED <<hvars, nvars, gvars, provider, results>>

NextRepeat ==
    \/ Next
    \/ \E img \in PipelineImages : ProcessAgain(img)

InitRepeat ==
    /\ NormOff
    /\ ApiOff
    /\ GeomOff
    /\ image \in PipelineImages
    /\ plate_regions = << >>
    /\ provider \in Fixtures
    /\ pc = "start"
    /\ LocalsFresh
    /\ first = NoCall

SpecRepeat == InitRepeat /\ [][NextRepeat]_vars

(***************************************************************************)
(* simple_detector.detect_and_recognize_plate                              *)
(***************************************************************************)
TopContoursSD == 10

\* text.replace(" ", "")
WithoutSpaces(s) == LET NotSpace(c) == c # " " IN SelectSeq(s, NotSpace)

\* clean_and_format_plate: the first window matching the pattern, else a
\* text of length 7 as it is, both written with the space, else the
\* cleaned text
clean_and_format_plate(txt) ==
    LET clean_text == CleanText(txt)
    IN  IF Len(clean_text) >= 7 /\ MatchingWindows(clean_text) # {}
        THEN FormatPlate(FirstWindow(clean_text))
        ELSE IF Len(clean_text) = 7 THEN FormatPlate(clean_text)
        ELSE clean_text

is_valid_uk_plate(txt) == MatchUKPattern(WithoutSpaces(txt))

\* the first contour of the ten largest with a plate's shape, if any
SimplePlateContours(img) ==
    SelectSeq(Take(SortedByArea(img.contours), TopContoursSD), IsPlateRegion)

T_LOWER == <<"a","b","1","2"," ","c","d","e","\n">>

\* seven digits: formatted with the space, yet not a valid plate
T_DIGITS == <<"1","2","3","4","5","6","7","\n">>

\* answers of image_to_string in the simple detector
SimpleAnswers ==
    { << >>, T_PLATE \o <<"\n">>, T_SHORT \o <<"\n">>, T_LOWER, T_DIGITS }

\* a loop that keeps the last cleaned text that is not empty
KeptText_latest(best, cleaned) ==
    IF cleaned # << >> THEN cleaned ELSE best

\* "if not best_text and cleaned: best_text = cleaned"
KeptText(best, cleaned) ==
    IF best = << >> /\ cleaned # << >> THEN cleaned ELSE best

\* the psm of each OCR configuration of the simple detector
SimpleConfigs == <<7, 8, 6>>

\* cv2.imread, the contours, and the search of the plate contour
SimpleLoad ==
    /\ pc = "sd_start"
    /\ IF ~image.decodable
       THEN /\ ret' = "None"
            /\ pc' = "sd_done"
            /\ UNCHANGED region
       ELSE /\ ret' = ret
            /\ IF SimplePlateContours(image) = << >>
               THEN /\ pc' = "sd_direct"
                    /\ UNCHANGED region
               ELSE /\ region' = BoundingRect(SimplePlateContours(image)[1])
                    /\ pc' = "sd_ocr"
    /\ UNCHANGED <<hvars, nvars, gvars, image, plate_regions, provider, branch,
                   idx, results, plate_number, country_id, raised, avars,
                   ivars, text_seen, first>>

\* no plate contour: image_to_string on the whole thresholded image
SimpleDirect ==
    /\ pc = "sd_direct"
    /\ \E raw \in SimpleAnswers :
          /\ ocr_text' = raw
          /\ plate_number' = clean_and_format_plate(raw)
    /\ ocr_log' = Append(ocr_log, <<"image_to_string", 11>>)
    /\ ret' = "text"
    /\ pc' = "sd_done"
    /\ UNCHANGED <<hvars, nvars, gvars, image, plate_regions, provider, branch,
                   region, idx, results, country_id, raised, cfg, all_texts,
                   confidences, best_text, best_confidence, hyps, ivars,
                   text_seen, first>>

\* one pass of "for config in configs": a valid plate ends the loop
SimpleOcr ==
    /\ pc = "sd_ocr"
    /\ cfg <= Len(SimpleConfigs)
    /\ \E raw \in SimpleAnswers :
          LET cleaned == clean_and_format_plate(raw)
          IN  /\ ocr_text' = raw
              /\ IF is_valid_uk_plate(cleaned)
                 THEN /\ best_text' = cleaned
                      /\ pc' = "sd_return"
                 ELSE /\ best_text' = KeptText(best_text, cleaned)
                      /\ pc' = pc
              /\ hyps' = Append(hyps, cleaned)
    /\ ocr_log' = Append(ocr_log, <<"image_to_string", SimpleConfigs[cfg]>>)
    /\ cfg' = cfg + 1
    /\ UNCHANGED <<hvars, nvars, gvars, image, plate_regions, provider, branch,
                   region, idx, results, plate_number, country_id, ret,
                   raised, all_texts, confidences, best_confidence, ivars,
                   text_seen, first>>

\* after the loop: "if best_text: return best_text, image", else None
SimpleReturn ==
    /\ \/ pc = "sd_return"
       \/ pc = "sd_ocr" /\ cfg > Len(SimpleConfigs)
    /\ IF best_text # << >>
       THEN /\ plate_number' = best_text
            /\ ret' = "text"
       ELSE /\ ret' = "None"
            /\ UNCHANGED plate_number
    /\ pc' = "sd_done"
    /\ UNCHANGED <<hvars, nvars, gvars, image, plate_regions, provider, branch,
                   region, idx, results, country_id, raised, avars, ivars,
                   text_seen, first>>

NextSimple == SimpleLoad \/ SimpleDirect \/ SimpleOcr \/ SimpleReturn

InitSimple ==
    /\ NormOff
    /\ ApiOff
    /\ GeomOff
    /\ image \in PipelineImages
    /\ plate_regions = << >>
    /\ provider = "any"
    /\ pc = "sd_start"
    /\ LocalsFresh
    /\ first = NoCall

SpecSimple == InitSimple /\ [][NextSimple]_vars

(***************************************************************************)
(* PlateRecognizer.recognize_plate                                         *)
(***************************************************************************)
\* PlateRecognizer.format_uk_plate: a cleaned text of length 7 is written
\* with the space, any other cleaned text as it is
pr_format_uk_plate(txt) ==
    LET clean_text == CleanText(txt)
    IN  IF Len(clean_text) = 7 THEN FormatPlate(clean_text) ELSE clean_text

\* the psm of each OCR configuration of recognize_plate
PlateConfigs == <<7, 8, 13>>

\* the scan of the rows of one config: a row replaces the best one when
\* conf > 0, text.strip() is not empty and conf > best_confidence
RECURSIVE PlateScan(_, _)
PlateScan(rows, best) ==
    IF rows = << >> THEN best
    ELSE LET t == Head(rows)
         IN  PlateScan(Tail(rows),
                       IF t.conf > 0 /\ Strip(t.text) # << >>
                          /\ t.conf > best.conf
                       THEN t ELSE best)

\* plate_img as extract_plate returned it for a contour: the crop of the
\* bounding box of the contour, resized
PlateImg(c, ext) ==
    [value |-> "image", box |-> BoundingRect(c), w |-> ext.w, h |-> ext.h]

\* a scan that keeps the plate image of the contour read last
KeptPlateImg_latest(old_img, plate_img, old_conf, new_conf) == plate_img

\* best_plate_img after the scan of the rows of one config: it is replaced
\* together with best_text and best_confidence, that is when a row raised
\* best_confidence
KeptPlateImg(old_img, plate_img, old_conf, new_conf) ==
    IF new_conf > old_conf THEN plate_img ELSE old_img

\* contours of the scenes given to recognize_plate
PlateSceneContours ==
    { RectContour(100, 200, 200, 50, 4),     \* a plate in the scene
      RectContour(440, 430, 200, 50, 6),     \* a plate in the bottom right corner
      RectContour(0, 0, 6, 2, 4) }           \* a speck with a plate's shape

PlateScenes ==
    { [decodable |-> TRUE, w |-> SceneW, h |-> SceneH, contours |-> cs] :
        cs \in ContourLists(PlateSceneContours) \cup {CrowdedPR} }

\* "for contour in contours": the next contour, or the end of the loop
PlateAdvance ==
    IF idx + 1 < Len(plate_contours')
    THEN /\ idx' = idx + 1
         /\ contour' = plate_contours'[idx + 2]
         /\ pc' = "rp_extract"
    ELSE /\ pc' = "rp_return"
         /\ UNCHANGED <<idx, contour>>

\* contours = self.find_plate_contours(processed, original); none ends
\* the call with (None, None)
PlateFind ==
    /\ pc = "rp_start"
    /\ plate_contours' = find_plate_contours(image)
    /\ IF plate_contours' = << >>
       THEN /\ ret' = "None"
            /\ pc' = "rp_done"
            /\ UNCHANGED contour
       ELSE /\ ret' = ret
            /\ contour' = plate_contours'[1]
            /\ pc' = "rp_extract"
    /\ UNCHANGED <<hvars, nvars, gpc, best_plate_img, recognizer, extracted, image, plate_regions,
                   provider,
                   branch, region, idx, results, plate_number, country_id,
                   raised, avars, ivars, text_seen, first>>

\* plate_img = self.extract_plate(original, contour); None skips the
\* contour
PlateExtract ==
    /\ pc = "rp_extract"
    /\ extracted' = extract_plate(image, contour)
    /\ plate_contours' = plate_contours
    /\ IF extracted'.value = "image"
       THEN /\ pc' = "rp_ocr"
            /\ cfg' = 1
            /\ hyps' = << >>
            /\ ocr_log' = << >>
            /\ UNCHANGED <<idx, contour>>
       ELSE /\ PlateAdvance
            /\ UNCHANGED <<cfg, hyps, ocr_log>>
    /\ UNCHANGED <<hvars, nvars, gpc, best_plate_img, recognizer, image, plate_regions, provider,
                   branch,
                   region, results, plate_number, country_id, ret, raised,
                   all_texts, confidences, best_text, best_confidence,
                   ocr_text, ivars, text_seen, first>>

\* one pass of "for config in configs"; an exception of image_to_data
\* leaves recognize_plate
PlateOcr ==
    /\ pc = "rp_ocr"
    /\ cfg <= Len(PlateConfigs)
    /\ ocr_log' = Append(ocr_log, <<"image_to_data", PlateConfigs[cfg]>>)
    /\ \/ /\ \E rows \in DataAnswer(provider, PlateConfigs[cfg]) :
                LET best == PlateScan(rows, Tok(best_text, best_confidence))
                IN  /\ best_text' = best.text
                    /\ best_confidence' = best.conf
                    /\ best_plate_img' =
                           KeptPlateImg(best_plate_img,
                                        PlateImg(contour, extracted),
                                        best_confidence, best.conf)
                    /\ hyps' = hyps \o AcceptedRows(rows)
                    /\ text_seen' = (text_seen \/ AcceptedRows(rows) # << >>)
          /\ cfg' = cfg + 1
          /\ UNCHANGED <<pc, ret, raised>>
       \/ /\ ProviderFails(provider)
          /\ raised' = "TesseractError"
          /\ ret' = "raise"
          /\ pc' = "rp_done"
          /\ UNCHANGED <<cfg, best_text, best_confidence, best_plate_img,
                         hyps, text_seen>>
    /\ UNCHANGED <<hvars, nvars, gpc, recognizer, plate_contours, contour,
                   extracted, image, plate_regions, provider, branch,
                   region, idx, results, plate_number, country_id,
                   all_texts, confidences, ocr_text, ivars, first>>

\* the configs of one contour are done
PlateNextContour ==
    /\ pc = "rp_ocr"
    /\ cfg > Len(PlateConfigs)
    /\ plate_contours' = plate_contours
    /\ PlateAdvance
    /\ UNCHANGED <<hvars, nvars, gpc, best_plate_img, recognizer, extracted, image, plate_regions,
                   provider,
                   branch, region, results, plate_number, country_id, ret,
                   raised, avars, ivars, text_seen, first>>

\* "if best_text: return formatted_text, best_plate_img", else (None, None)
PlateReturn ==
    /\ pc = "rp_return"
    /\ IF best_text # << >>
       THEN /\ plate_number' = pr_format_uk_plate(best_text)
            /\ ret' = "text"
       ELSE /\ ret' = "None"
            /\ UNCHANGED plate_number
    /\ pc' = "rp_done"
    /\ UNCHANGED <<hvars, nvars, gvars, image, plate_regions, provider, branch,
                   region, idx, results, country_id, raised, avars, ivars,
                   text_seen, first>>

NextPlate ==
    \/ PlateFind
    \/ PlateExtract
    \/ PlateOcr
    \/ PlateNextContour
    \/ PlateReturn

InitPlate ==
    /\ NormOff
    /\ ApiOff
    /\ GeomIdle
    /\ recognizer = PlateRecognizer_init
    /\ image \in PlateScenes
    /\ plate_regions = << >>
    /\ provider = "any"
    /\ pc = "rp_start"
    /\ LocalsFresh
    /\ first = NoCall

SpecPlate == InitPlate /\ [][NextPlate]_vars

\* the two recognizers side by side
InitAggregate == Init \/ InitPlate

NextAggregate == Next \/ NextPlate

SpecAggregate == InitAggregate /\ [][NextAggregate]_vars

\* the two recognizers with a text provider that may raise
InitFault ==
    /\ NormOff
    /\ ApiOff
    /\ GeomIdle
    /\ \/ /\ image \in PipelineImages
          /\ pc = "start"
          /\ recognizer = NoRecognizer
       \/ /\ image \in PlateScenes
          /\ pc = "rp_start"
          /\ recognizer = PlateRecognizer_init
    /\ plate_regions = << >>
    /\ provider = "faulty"
    /\ LocalsFresh
    /\ first = NoCall

SpecFault == InitFault /\ [][NextAggregate]_vars

(***************************************************************************)
(* SpecApi: api_server.anpr_process, the handler of POST /api/anpr-process *)
(* round one call of process_image, with a text provider that may raise    *)
(***************************************************************************)
S_ERROR == <<"E","R","R","O","R">>

\* the JSON answer and its status
Response(status, number) == [status |-> status, plate_number |-> number]

\* "if 'image' not in request.files" answers 400.  Otherwise the temporary
\* file is created (NamedTemporaryFile with delete=False), the upload is
\* saved in it and process_image(temp_path) is called.
ApiSave ==
    /\ apc = "request"
    /\ IF ~request.has_image
       THEN /\ response' = Response(400, << >>)
            /\ apc' = "returned"
            /\ UNCHANGED <<temp_file, pc>>
       ELSE /\ temp_file' = "exists"
            /\ apc' = "process"
            /\ pc' = "start"
            /\ UNCHANGED response
    /\ UNCHANGED <<nvars, gvars, image, plate_regions, provider, branch,
                   region, idx, results, plate_number, country_id, ret,
                   raised, avars, ivars, text_seen, first, request>>

\* list(results.keys())[0]: the key stored first, the lowest index
FirstPlateKey(dict) == CHOOSE k \in DOMAIN dict : \A j \in DOMAIN dict : k <= j

\* a handler that removes the file whether process_image returned or
\* raised
UnlinkAfter_always(file, outcome) == "deleted"

\* the file at temp_path when the handler returns: os.unlink(temp_path)
\* stands after the call of process_image inside the try block, and the
\* except branch does not remove the file
UnlinkAfter(file, outcome) == IF outcome = "raise" THEN file ELSE "deleted"

\* process_image has returned or raised: the answer of the handler
ApiRespond ==
    /\ apc = "process"
    /\ pc = "done"
    /\ temp_file' = UnlinkAfter(temp_file, ret)
    /\ response' =
          IF ret = "raise" THEN Response(500, S_ERROR)
          ELSE IF ret = "None" \/ results = << >>
               THEN Response(200, S_UNKNOWN)
          ELSE Response(200, results[FirstPlateKey(results)].plate_number)
    /\ apc' = "returned"
    /\ UNCHANGED <<nvars, gvars, image, plate_regions, pvars, request>>

NextApi ==
    \/ ApiSave
    \/ ApiRespond
    \/ Next

InitApi ==
    /\ NormOff
    /\ GeomOff
    /\ image \in PipelineImages
    /\ plate_regions = << >>
    /\ provider = "faulty"
    /\ pc = "off"
    /\ LocalsFresh
    /\ first = NoCall
    /\ apc = "request"
    /\ request \in { [has_image |-> b] : b \in BOOLEAN }
    /\ temp_file = "none"
    /\ response = NoResponse

SpecApi == InitApi /\ [][NextApi]_vars

(***************************************************************************)
(* Claims about the normalizer                                             *)
(***************************************************************************)
\* C1: format_uk_plate is idempotent: formatting the formatted text again
\* gives the formatted text.
C1_Idempotent == npc = "twice" => reformatted = formatted

\* C1 witness: a text with surrounding noise whose pattern window was
\* extracted and formatted, then formatted again.
C1_Witness ==
    /\ npc = "twice"
    /\ Len(text) > 7
    /\ Len(formatted) = 8
    /\ formatted # S_AA03_BOJ

C3_ConfusableO ==
    (npc # "raw" /\ text = S_AB1OCDE) =>
        formatted = <<"A","B","1","0"," ","C","D","E">>

\* C3 witness: "AB1OCDE" has been formatted and its fourth character is now
\* the digit zero.
C3_Witness ==
    /\ npc = "once"
    /\ text = S_AB1OCDE
    /\ formatted[4] = "0"

(***************************************************************************)
(* Claims about the detectors and the extractor                            *)
(***************************************************************************)
\* the box <<x, y, w, h>> is not empty and lies inside the image
BoxInside(r, img) ==
    /\ r[3] >= 1
    /\ r[4] >= 1
    /\ r[1] >= 0
    /\ r[2] >= 0
    /\ r[1] + r[3] <= img.w
    /\ r[2] + r[4] <= img.h

\* C4: every candidate a detector returns has a bounding box with width and
\* height at least 1 that lies inside the image; this holds of the regions
\* of detect_plate_regions and of the contours of find_plate_contours.
C4_CandidatesInside ==
    /\ gpc \in {"detected", "found", "extracted"} =>
          \A i \in 1..Len(plate_regions) : BoxInside(plate_regions[i], image)
    /\ gpc \in {"found", "extracted"} =>
          \A i \in 1..Len(plate_contours) :
              BoxInside(BoundingRect(plate_contours[i]), image)

\* C4 witness: both detectors returned a candidate, and one region reaches
\* the right and the bottom border of the image.
C4_Witness ==
    /\ gpc = "found"
    /\ plate_contours # << >>
    /\ \E i \in 1..Len(plate_regions) :
          /\ plate_regions[i][1] + plate_regions[i][3] = image.w
          /\ plate_regions[i][2] + plate_regions[i][4] = image.h

\* C5: extract_plate on a contour whose bounding box has height 0 returns
\* None (the extraction failure) and lets no exception escape.
C5_ZeroHeightCaught ==
    (gpc = "extracted" /\ BoundingRect(contour)[4] = 0) =>
        (extracted.value = "None" /\ extracted.raised = "none")

\* C5 witness: extract_plate was given a contour of height 0 and caught the
\* division by zero.
C5_Witness ==
    /\ gpc = "extracted"
    /\ BoundingRect(contour)[4] = 0
    /\ extracted.caught = "ZeroDivisionError"
    /\ extracted.value = "None"

(***************************************************************************)
(* Claims about the pipeline                                               *)
(***************************************************************************)
\* C6: with one fixed provider, a call of process_image on the image of the
\* first call gives back what the first call gave back (same return kind,
\* same keys, plate strings, tags and boxes), whatever calls came between.
C6_Deterministic ==
    (pc = "done" /\ first.called /\ image = first.image) =>
        Outcome = first.outcome

\* C6 witness: after a call on another image, a call on the first image
\* has returned a mapping with an entry.
C6_Witness ==
    /\ pc = "done"
    /\ first.called
    /\ first.others
    /\ image = first.image
    /\ ret = "dict"
    /\ results # << >>

\* C7: when the shortcut does not apply and no region is found, the call
\* ends only after image_to_data ran on the whole image under each of the
\* three configs, and its mapping is empty only if no OCR request gave a
\* text (the direct image_to_string was tried too and gave none).
C7_FallbackRunsOCR ==
    (/\ pc = "done"
     /\ image.decodable
     /\ ~PlateLikeRatio(image.w, image.h)
     /\ detect_plate_regions(image) = << >>) =>
        /\ Len(ocr_log) >= 3
        /\ \A k \in 1..3 : ocr_log[k] = <<"image_to_data", DirectConfigs[k]>>
        /\ results = << >> =>
              /\ ~text_seen
              /\ Len(ocr_log) = 4
              /\ ocr_log[4] = <<"image_to_string", 7>>

\* C7 witness: a call without regions ended with an empty mapping after
\* its four OCR requests.
C7_Witness ==
    /\ pc = "done"
    /\ branch = "fallback"
    /\ ret = "dict"
    /\ results = << >>
    /\ Len(ocr_log) = 4

\* C8: with 15% of blue in the band and "GB" in neither OCR text, the tag
\* is "EU", whatever the white percentage.
C8_BlueOnlyIsEU ==
    (/\ pc = "emit"
     /\ blue_percentage = 15
     /\ ~Contains(id_text, S_GB)
     /\ ~Contains(simple_text, S_GB)) =>
        country_id = S_EU

\* C8 witness: the tag "EU" was given with 15% of blue and a white
\* percentage above the threshold of the white heuristic.
C8_Witness ==
    /\ pc = "emit"
    /\ blue_percentage = 15
    /\ white_percentage > 5
    /\ id_log = <<"text_enhanced", "left_part", "white_mask">>
    /\ country_id = S_EU

\* C9 as stated: when the file cannot be decoded, process_image ends by
\* raising an ImageLoadError to its caller, not by returning a value.
C9_LoadErrorSurfaced ==
    (pc = "done" /\ ~image.decodable) =>
        (ret = "raise" /\ raised = "ImageLoadError")

\* C10 as stated: on a decodable image for which no plate OCR request gives
\* a text, process_image raises nothing and returns the empty mapping.
C10_NoPlateEmptyMapping ==
    (pc = "done" /\ image.decodable /\ ~text_seen) =>
        (raised = "none" /\ ret = "dict" /\ results = << >>)

\* a plate string as format_uk_plate writes a recognized plate: seven
\* letters or digits with a space after the fourth
PlateShaped(s) ==
    /\ Len(s) = 8
    /\ s[5] = " "
    /\ \A i \in (1..8) \ {5} : IsAlnum(s[i])

\* C11 as stated: a mapping returned from the per-candidate branch holds
\* an entry only for a candidate whose plate string is a recognized plate;
\* it holds no entry whose string is "UNKNOWN", empty or of another length.
C11_OnlyRecognizableEmitted ==
    (pc = "done" /\ branch = "candidates" /\ ret = "dict") =>
        \A k \in DOMAIN results : PlateShaped(results[k].plate_number)

\* C12 as stated: a call that found candidates ends by returning a mapping,
\* after every candidate was processed, whatever failed for one of them.
C12_CandidateFailureCaught ==
    (pc = "done" /\ branch = "candidates") =>
        /\ raised = "none"
        /\ ret = "dict"
        /\ idx = Len(plate_regions) - 1

\* C13: an image whose width/height ratio lies strictly between 3.5 and 5.5
\* is read as a whole, without contour detection, and a returned mapping
\* has the one key 0 (plate_0) with the box (0, 0, width, height); an image
\* with any other ratio is not read through the shortcut.
C13_ShortcutBand ==
    (pc = "done" /\ image.decodable) =>
        IF 7 * image.h < 2 * image.w /\ 2 * image.w < 11 * image.h
        THEN /\ branch = "shortcut"
             /\ plate_regions = << >>
             /\ ret = "dict" =>
                   /\ DOMAIN results = {0}
                   /\ results[0].bbox = <<0, 0, image.w, image.h>>
        ELSE branch # "shortcut"

\* C13 witness: the shortcut returned its one entry, for a plate that OCR
\* did not read.
C13_Witness ==
    /\ pc = "done"
    /\ branch = "shortcut"
    /\ ret = "dict"
    /\ DOMAIN results = {0}
    /\ results[0].bbox = <<0, 0, 450, 100>>
    /\ results[0].plate_number = S_UNKNOWN

(***************************************************************************)
(* Claims about the OCR aggregators                                        *)
(***************************************************************************)
\* C14 as stated: when the simple detector has read a plate region, the
\* text provider was asked once under every configuration of the list, in
\* order, whatever the earlier configurations answered.
C14_EveryConfigRuns ==
    (pc = "sd_done" /\ region # NoRegion) =>
        ocr_log = [k \in 1..Len(SimpleConfigs) |->
                      <<"image_to_string", SimpleConfigs[k]>>]

\* the first of the rows of highest confidence
FirstMax(h) ==
    CHOOSE i \in 1..Len(h) :
        /\ \A j \in 1..Len(h) : h[j].conf <= h[i].conf
        /\ \A j \in 1..(i - 1) : h[j].conf < h[i].conf

C16_ProviderErrorContained ==
    pc \in {"done", "rp_done"} => raised # "TesseractError"

\* C17 as stated: when no OCR request of a call gave a text, every plate
\* string of the returned mapping is "UNKNOWN"; no fixed plate string
\* stands in for OCR output.
C17_NoPresetPlate ==
    (pc = "done" /\ ret = "dict" /\ ~text_seen) =>
        \A k \in DOMAIN results : results[k].plate_number = S_UNKNOWN

(***************************************************************************)
(* Claims about PlateRecognizer                                            *)
(***************************************************************************)
\* C18 as stated: a newly constructed PlateRecognizer has min_area 100 and
\* max_area 5000.
C18_InitialAreas ==
    recognizer.constructed =>
        (recognizer.min_area = 100 /\ recognizer.max_area = 5000)

\* the outcome the claim describes: an image of height 50 whose width is
\* the width of the box scaled by 50 / h, rounded, and at least 1
ScaledToTarget(e, r) ==
    /\ e.value = "image"
    /\ e.raised = "none"
    /\ e.h = 50
    /\ e.w >= 1
    /\ 2 * Abs(e.w * r[4] - 50 * r[3]) <= r[4]

\* C19 as stated: for every contour whose bounding box has positive width
\* and height and lies inside the image, extract_plate returns an image of
\* height 50 and positive width, scaled by 50 / h on both axes.
C19_Original ==
    (gpc = "extracted" /\ BoxInside(BoundingRect(contour), image)) =>
        ScaledToTarget(extracted, BoundingRect(contour))

\* C19 amended: the same, for the contours whose box is less than 100 times
\* as high as it is wide; for a box at least 100 times as high as wide the
\* scaled width rounds to 0 and extract_plate returns None.
C19_ScaledWhenWideEnough ==
    (gpc = "extracted" /\ BoxInside(BoundingRect(contour), image)) =>
        LET r == BoundingRect(contour)
        IN  IF r[4] < 100 * r[3]
            THEN ScaledToTarget(extracted, r)
            ELSE extracted.value = "None" /\ extracted.raised = "none"

\* C19 witness: a box of 640 by 160 inside the image came back 200 wide
\* and 50 high.
C19_Witness ==
    /\ gpc = "extracted"
    /\ BoundingRect(contour) = <<0, 0, 640, 160>>
    /\ extracted.value = "image"
    /\ extracted.h = 50
    /\ extracted.w = 200

(***************************************************************************)
(* Claims about the windows of the normalizer                              *)
(***************************************************************************)
\* two letters, two digits, three letters
Shaped(w) ==
    /\ \A i \in {1, 2, 5, 6, 7} : w[i] \in UpperLetters
    /\ \A i \in {3, 4} : w[i] \in DigitChars

HasPlate(s) == \E i \in 1..(Len(s) - 6) : Shaped(SubSeq(s, i, i + 6))

\* out is the leftmost shaped window of s, written with the space
LeftmostPlate(s, out) ==
    \E i \in 1..(Len(s) - 6) :
        /\ Shaped(SubSeq(s, i, i + 6))
        /\ \A j \in 1..(i - 1) : ~Shaped(SubSeq(s, j, j + 6))
        /\ out = SubSeq(s, i, i + 3) \o <<" ">> \o SubSeq(s, i + 4, i + 6)

Residual(t) == Replace(Replace(CleanText(t), "O", "0"), "I", "1")

\* C21: when the cleaned and corrected text holds no window of two letters,
\* two digits and three letters and is not seven characters long,
\* format_uk_plate returns exactly that text: no space, no character
\* added, removed or replaced.
C21_ResidualReturnedVerbatim ==
    (npc # "raw" /\ ~HasPlate(Residual(text)) /\ Len(Residual(text)) # 7)
        => formatted = Residual(text)

\* C22: no text returned by format_uk_plate holds the letter O or the
\* letter I.
C22_NoConfusableLetterReturned ==
    npc # "raw" =>
        \A i \in 1..Len(formatted) : formatted[i] \notin {"O", "I"}

AreaInsideBand(img, c) ==
    /\ 2 * (img.h * img.w) < 100 * ContourArea2(c)
    /\ 10 * ContourArea2(c) < 2 * (img.h * img.w)

\* the width:height ratio of a box lies strictly between lo and hi
RatioInsideBand(box, lo, hi) ==
    /\ lo * box[4] < box[3]
    /\ box[3] < hi * box[4]

\* C25: a detector admits a contour only if its area lies strictly between
\* 1% and 10% of the image area and the ratio of its bounding box lies
\* strictly inside the aspect band (2.0 to 7.0 in detect_plate_regions,
\* 3.0 to 6.0 in find_plate_contours); a contour failing either test is
\* never among the candidates returned.
C25_AdmittedOnlyInsideBothBands ==
    /\ gpc \in {"detected", "found", "extracted"} =>
          \A i \in 1..Len(plate_regions) :
              \E k \in 1..Len(image.contours) :
                  /\ BoundingRect(image.contours[k]) = plate_regions[i]
                  /\ AreaInsideBand(image, image.contours[k])
                  /\ RatioInsideBand(plate_regions[i], 2, 7)
    /\ gpc \in {"found", "extracted"} =>
          \A i \in 1..Len(plate_contours) :
              /\ AreaInsideBand(image, plate_contours[i])
              /\ RatioInsideBand(BoundingRect(plate_contours[i]), 3, 6)

\* the contours of img that have the box given and are among the k largest
\* of img: fewer than k contours of img have a strictly larger area
SourcesOf(img, box, k) ==
    { n \in 1..Len(img.contours) :
        /\ BoundingRect(img.contours[n]) = box
        /\ Cardinality({ m \in 1..Len(img.contours) :
               ContourArea2(img.contours[m])
                   > ContourArea2(img.contours[n]) }) < k }

\* the boxes are boxes of contours among the k largest of img, in the order
\* of non-increasing contour area
AreaDescending(img, boxes, k) ==
    /\ \A i \in 1..Len(boxes) : SourcesOf(img, boxes[i], k) # {}
    /\ \A i, j \in 1..Len(boxes) :
          i < j =>
              \E a \in SourcesOf(img, boxes[i], k),
                 b \in SourcesOf(img, boxes[j], k) :
                  ContourArea2(img.contours[a]) >= ContourArea2(img.contours[b])

\* C26: the candidates of a detector come in the order of non-increasing
\* contour area and all belong to the K largest contours of the image
\* (15 in detect_plate_regions, 20 in find_plate_contours), and the key
\* plate_k of the mapping of process_image holds the candidate at
\* position k of that order (stated of the finished calls).
C26_AreaDescendingTopK ==
    /\ (pc = "done" /\ branch = "candidates") =>
          /\ AreaDescending(image, plate_regions, 15)
          /\ \A k \in DOMAIN results :
                /\ k < Len(plate_regions)
                /\ results[k].bbox = plate_regions[k + 1]
    /\ (pc = "rp_done" /\ plate_contours # << >>) =>
          AreaDescending(image,
                         [i \in 1..Len(plate_contours) |->
                             BoundingRect(plate_contours[i])], 20)

\* C26 witness: of the four small plates of the crowded scene, given
\* smallest first, the two largest were returned, larger first, and stand
\* under plate_0 and plate_1.
C26_Witness ==
    /\ pc = "done"
    /\ image.contours = CrowdedUK
    /\ plate_regions = <<BoundingRect(SmallPlates[4]), BoundingRect(SmallPlates[3])>>
    /\ DOMAIN results = {0, 1}
    /\ results[0].bbox = BoundingRect(SmallPlates[4])
    /\ results[1].bbox = BoundingRect(SmallPlates[3])

C28_BestTextAndImagePaired ==
    /\ [](pc \in {"rp_extract", "rp_ocr", "rp_return", "rp_done"} =>
            /\ best_text = << >> <=> best_plate_img = NoPlateImg
            /\ best_text = << >> <=> ~text_seen
            /\ (pc = "rp_done" /\ ret # "raise") =>
                  /\ ret \in {"None", "text"}
                  /\ ret = "None" <=> (plate_contours = << >> \/ ~text_seen)
                  /\ ret = "text" => best_plate_img.value = "image")
    /\ [][(/\ pc = "rp_ocr"
           /\ \/ best_text' # best_text
              \/ best_confidence' # best_confidence
              \/ best_plate_img' # best_plate_img) =>
             /\ best_confidence' > best_confidence
             /\ Strip(best_text') # << >>
             /\ extracted.value = "image"
             /\ best_plate_img' = [value |-> "image",
                                   box |-> BoundingRect(contour),
                                   w |-> extracted.w,
                                   h |-> extracted.h]]_vars

\* C28 witness: of two different contours read, the first gave the row of
\* the highest confidence; the call returned its text with the extract of
\* the first contour, not of the one read last.
C28_Witness ==
    /\ pc = "rp_done"
    /\ ret = "text"
    /\ Len(plate_contours) = 2
    /\ plate_contours[1] # plate_contours[2]
    /\ contour = plate_contours[2]
    /\ best_plate_img.box = BoundingRect(plate_contours[1])
    /\ best_plate_img.box # BoundingRect(contour)

\* the least of a set of positions that is not empty
FirstOf(positions) == CHOOSE k \in positions : \A j \in positions : k <= j

\* C29: over the ordered configs of the simple detector, the text chosen is
\* the cleaned text of the first config whose cleaned text is a valid
\* plate, if a config gives one, and otherwise the cleaned text of the
\* first config whose cleaned text is not empty; a later text that is not
\* valid never replaces an earlier one that is not empty, and None is
\* returned only if every config gave an empty cleaned text.
C29_FirstValidElseFirstNonEmpty ==
    LET valid    == { k \in 1..Len(hyps) : is_valid_uk_plate(hyps[k]) }
        nonempty == { k \in 1..Len(hyps) : hyps[k] # << >> }
        chosen   == IF valid # {} THEN hyps[FirstOf(valid)]
                    ELSE IF nonempty # {} THEN hyps[FirstOf(nonempty)]
                    ELSE << >>
    IN  /\ (pc \in {"sd_ocr", "sd_return"}) => best_text = chosen
        /\ (pc = "sd_done" /\ region # NoRegion) =>
              /\ ret = "text" => (chosen # << >> /\ plate_number = chosen)
              /\ ret = "None" =>
                    /\ Len(hyps) = Len(SimpleConfigs)
                    /\ \A k \in 1..Len(hyps) : hyps[k] = << >>
              /\ ret \in {"text", "None"}

\* C29 witness: the first config gave seven digits, the second a short
\* text, the third nothing; the text of the first config was returned.
C29_Witness ==
    /\ pc = "sd_done"
    /\ ret = "text"
    /\ Len(hyps) = 3
    /\ hyps[1] = <<"1","2","3","4"," ","5","6","7">>
    /\ hyps[2] # << >>
    /\ hyps[2] # hyps[1]
    /\ hyps[3] = << >>
    /\ plate_number = hyps[1]

(***************************************************************************)
(* Claims about the HTTP handler                                           *)
(***************************************************************************)
\* C30: in api_server.anpr_process the temporary file holding the upload
\* is deleted before the handler returns, on every path after the file
\* was created, the path where process_image raises and the answer has
\* status 500 included.
C30_TempFileDeleted ==
    (apc = "returned" /\ response.status # 400) => temp_file = "deleted"

=============================================================================
